---- MODULE Spec2Model ----
(***************************************************************************)
(* Model of the DeltaLake bridge (src/DeltaLake/Bridge/src/lib.rs and      *)
(* table.rs): the callback-completed table operations, the table handle,   *)
(* the cancellation token and the buffers returned to the caller.          *)
(*                                                                         *)
(* The table engine (deltalake) is a black box: each awaited engine call   *)
(* resolves nondeterministically to Ok or to one of the engine's error     *)
(* kinds.  Bridge code between two awaits runs as one step of a worker.    *)
(*                                                                         *)
(* Spec and FairSpec are the calls of table.rs and of the token with the   *)
(* tasks they spawn.  MapSpec is a caller that builds a Map with map_new   *)
(* and map_add and passes it to open and vacuum.  BytesSpec is the life of *)
(* one ByteArray, TextSpec the reading of one metadata text.               *)
(***************************************************************************)
EXTENDS Integers, Sequences, FiniteSets, TLC

(***************************************************************************)
(* Bounds                                                                  *)
(***************************************************************************)
\* number of calls into the bridge a run makes
MaxCalls == 3
\* number of those calls that are opens (table_new)
MaxOpens == 1
\* highest table version the engine's log holds
MaxVersion == 1
\* number of those calls that are cancellation_token_cancel
MaxCancels == 2
\* width in bits standing for the 64 bits of u64 / i64
Bits == 26
\* number of map_add calls made on the caller's Map
MaxAdds == 2
\* length of the byte vector a ByteArray is made from
MaxVec == 3
\* length of a metadata text
MaxText == 6

Pow2(n) == 2 ^ n
\* u64::MAX and i64::MAX at the modelled width
UMax == Pow2(Bits) - 1
IMax == Pow2(Bits - 1) - 1

(***************************************************************************)
(* Values                                                                  *)
(***************************************************************************)
\* Option<DeltaTableState>: None, or the snapshot of one log version.
\* vac tells a snapshot the engine's vacuum command returned.
NoState == [some |-> FALSE, version |-> -1, vac |-> FALSE]
Snapshot(v) == [some |-> TRUE, version |-> v, vac |-> FALSE]
States == {NoState} \cup [some : {TRUE}, version : 0..MaxVersion, vac : BOOLEAN]

\* deltalake::DeltaTableError kinds the engine reports
EngineErrKinds == {"ObjectStore", "NotATable"}

\* strings are sequences of characters; these are the data file names
FileA == <<1, 2>>
FileB == <<>>
\* get_file_uris / get_files_iter of a snapshot (engine)
FilesOf(s) == IF s.version >= 1 THEN <<FileA, FileB>> ELSE <<>>
\* metrics.files_deleted of a vacuum run (engine)
DeletedSets == {<<>>, <<FileA>>}

\* a *const Map argument: null, or a Map the caller built with map_new and
\* map_add.  data is the HashMap, a set of <<key, value>> with one value for a
\* key; adds is history, the map_add calls that built it
NullMap == [null |-> TRUE, data |-> {}, adds |-> <<>>]
MapOne == [null |-> FALSE, data |-> {<<FileA, FileB>>}, adds |-> <<<<FileA, FileB>>>>]

\* the bytes behind the table_uri argument of table_new: "a" and "e" with an
\* acute accent (two bytes), a lone 0xFF, a lead byte without its
\* continuation, and an overlong encoding
Locations == {<<97, 195, 169>>, <<255>>, <<97, 195>>, <<192, 175>>}

\* Option<T> of a number
NoneNum == [some |-> FALSE, val |-> 0]
SomeNum(n) == [some |-> TRUE, val |-> n]

\* DeltaTableBuilder before options are applied
NoBuilder ==
    [table_uri |-> <<>>, version |-> NoneNum, storage_options |-> NullMap,
     without_files |-> FALSE, log_buffer_size |-> NoneNum]

\* TableOptions values a caller passes to table_new
TableOptionsSet ==
    { [version |-> 0, storage_options |-> NullMap, without_files |-> FALSE,
       log_buffer_size |-> 0],
      [version |-> 1, storage_options |-> MapOne, without_files |-> TRUE,
       log_buffer_size |-> 4],
      [version |-> -1, storage_options |-> NullMap, without_files |-> FALSE,
       log_buffer_size |-> 0] }

\* TableOptions as table_new reads them when no call has passed any
NoTableOptions ==
    [version |-> 0, storage_options |-> NullMap, without_files |-> FALSE,
     log_buffer_size |-> 0]

\* a Map that was made and never added to
MapEmpty == [null |-> FALSE, data |-> {}, adds |-> <<>>]

\* TableOptions field by field: version is an i64 (its least value, -1, 0 and
\* the versions of the log), log_buffer_size a usize (0, 1 and its greatest
\* value), storage_options a null pointer, an empty Map or a Map of one entry
OpenVersions == {-IMax - 1, -1, 0} \cup 1..MaxVersion
OpenBufferSizes == {0, 1, UMax}
OpenMaps == {NullMap, MapEmpty, MapOne}
OpenOptionsSet ==
    [version : OpenVersions, storage_options : OpenMaps,
     without_files : BOOLEAN, log_buffer_size : OpenBufferSizes]

\* chrono::Duration::hours accepts hours whose milliseconds fit the signed
\* width; beyond it the call panics
MaxDurationHours == IMax \div 3600000

\* retention_hours values: zero, small, the largest accepted duration, the
\* first rejected one, the first that the signed cast wraps, and u64::MAX
RetentionHours ==
    {0, 1, MaxDurationHours, MaxDurationHours + 1, IMax + 1, UMax}

\* VacuumOptions values a caller passes to table_vacuum
VacuumOptionsSet ==
    { [dry_run |-> (r = 1), retention_hours |-> r,
       enforce_retention_duration |-> (r # 0),
       custom_metadata |-> IF r = 1 THEN MapOne ELSE NullMap]
      : r \in RetentionHours }
NoVacuumOptions ==
    [dry_run |-> FALSE, retention_hours |-> 0,
     enforce_retention_duration |-> FALSE, custom_metadata |-> NullMap]

\* VacuumBuilder: retention is the Duration in seconds when one was set
NoCmd ==
    [built |-> FALSE, dry_run |-> FALSE, enforce |-> FALSE,
     retention |-> NoneNum, metadata |-> NullMap]

\* a DynamicArray handed to the caller: the state of its element block and of
\* each element's byte buffer ("none" where the allocation has capacity 0)
NoArray == [null |-> TRUE, size |-> 0, block |-> "none", bufs |-> <<>>]


(***************************************************************************)
(* Pure functions                                                          *)
(***************************************************************************)
\* `retention_period as i64`: the two's complement reading of an unsigned
AsI64(n) == IF n > IMax THEN n - Pow2(Bits) ELSE n

\* chrono::Duration::hours(h) panics when h hours are out of bounds
DurationHoursPanics(h) == h > MaxDurationHours \/ h < -MaxDurationHours
\* and otherwise holds h hours, kept in seconds
DurationHours(h) == h * 3600

\* DeltaTableError::from_error: the engine's error kind as the bridge's
\* error category
FromError(kind) ==
    CASE kind = "NoMetadata" -> "NoMetadata"
      [] kind = "ObjectStore" -> "Io"
      [] kind = "NotATable" -> "NotFound"
      [] OTHER -> "Generic"

\* std::str::from_utf8 on the bytes: is the sequence well-formed UTF-8
Cont(b) == b >= 128 /\ b <= 191
RECURSIVE IsUtf8(_)
IsUtf8(bytes) ==
    LET n == Len(bytes)
        b == bytes[1]
        At(k) == bytes[k]
        Rest(k) == SubSeq(bytes, k + 1, n)
    IN IF n = 0 THEN TRUE
       ELSE IF b < 128 THEN IsUtf8(Rest(1))
       ELSE IF b >= 194 /\ b <= 223
            THEN n >= 2 /\ Cont(At(2)) /\ IsUtf8(Rest(2))
       ELSE IF b >= 224 /\ b <= 239
            THEN /\ n >= 3 /\ Cont(At(2)) /\ Cont(At(3))
                 /\ (b = 224 => At(2) >= 160)
                 /\ (b = 237 => At(2) <= 159)
                 /\ IsUtf8(Rest(3))
       ELSE IF b >= 240 /\ b <= 244
            THEN /\ n >= 4 /\ Cont(At(2)) /\ Cont(At(3)) /\ Cont(At(4))
                 /\ (b = 240 => At(2) >= 144)
                 /\ (b = 244 => At(2) <= 143)
                 /\ IsUtf8(Rest(4))
       ELSE FALSE

\* ByteArray::from_vec: the vector's buffer, taken out of the vector with
\* ManuallyDrop; a vector of capacity 0 has no allocation
ByteArrayFromVec(vec) ==
    [size |-> Len(vec), cap |-> Len(vec), disable_free |-> FALSE,
     buf |-> IF Len(vec) > 0 THEN "allocated" ELSE "none"]

\* ByteArray::from_utf8
ByteArrayFromUtf8(str) == ByteArrayFromVec(str)

\* ByteArray::from_vec_disable_free
ByteArrayFromVecDisableFree(vec) ==
    [ByteArrayFromVec(vec) EXCEPT !.disable_free = TRUE]

\* Drop for ByteArray: data is never null, so the bytes are re-owned by a
\* Vec and freed with it
DropByteArray(b) ==
    [b EXCEPT !.buf = IF b.buf = "allocated" THEN "freed" ELSE b.buf]

\* DynamicArray::from_vec_string: `data` is a local Vec<ByteArray>; the array
\* takes data.as_ptr(), and `data` is dropped when the function returns, which
\* drops every element and frees the element block
FromVecString(input) ==
    LET data == [i \in 1..Len(input) |-> ByteArrayFromUtf8(input[i])]
        dropped == [i \in 1..Len(input) |-> DropByteArray(data[i])]
    IN [null |-> FALSE,
        size |-> Len(data),
        block |-> IF Len(data) > 0 THEN "freed" ELSE "none",
        bufs |-> [i \in 1..Len(input) |-> dropped[i].buf]]

\* map.data.clone(): a copy of the HashMap, no longer behind the caller's
\* pointer
CloneData(m) == [null |-> FALSE, data |-> m.data, adds |-> <<>>]

\* vacuum lines 403-406: the copied map as the engine's JSON metadata, each
\* value a JSON string
JsonMetadata(m) ==
    [null |-> FALSE, data |-> {<<p[1], <<"String", p[2]>>>> : p \in m.data},
     adds |-> <<>>]

\* variant: a version is set on the loader from version 0 on
BuilderFor_from_zero(options) ==
    [table_uri |-> <<>>,
     version |-> IF options.version >= 0
                 THEN SomeNum(options.version) ELSE NoneNum,
     storage_options |-> IF ~options.storage_options.null
                         THEN CloneData(options.storage_options) ELSE NullMap,
     without_files |-> options.without_files,
     log_buffer_size |-> IF options.log_buffer_size > 0
                         THEN SomeNum(options.log_buffer_size) ELSE NoneNum]

\* table_new lines 99-119: the loader as configured from TableOptions
BuilderFor(options) ==
    [table_uri |-> <<>>,
     version |-> IF options.version > 0
                 THEN SomeNum(options.version) ELSE NoneNum,
     storage_options |-> IF ~options.storage_options.null
                         THEN CloneData(options.storage_options) ELSE NullMap,
     without_files |-> options.without_files,
     log_buffer_size |-> IF options.log_buffer_size > 0
                         THEN SomeNum(options.log_buffer_size) ELSE NoneNum]

\* table_vacuum lines 340-359: the values copied out of VacuumOptions
Captured(options) ==
    [dry_run |-> options.dry_run,
     retention_hours |-> IF options.retention_hours > 0
                         THEN SomeNum(options.retention_hours) ELSE NoneNum,
     enforce_retention_duration |-> options.enforce_retention_duration,
     custom_metadata |-> IF options.custom_metadata.null
                         THEN NullMap ELSE CloneData(options.custom_metadata)]
NoCaptured == Captured(NoVacuumOptions)

\* vacuum lines 395-407: the engine command built from the captured values
\* (called only when Duration::hours does not panic)
VacuumCmd(c) ==
    [built |-> TRUE,
     dry_run |-> c.dry_run,
     enforce |-> c.enforce_retention_duration,
     retention |-> IF c.retention_hours.some
                   THEN SomeNum(DurationHours(AsI64(c.retention_hours.val)))
                   ELSE NoneNum,
     metadata |-> IF c.custom_metadata.null
                  THEN NullMap ELSE JsonMetadata(c.custom_metadata)]

\* vacuum line 400 panics inside the spawned task
VacuumPanics(c) ==
    c.retention_hours.some /\ DurationHoursPanics(AsI64(c.retention_hours.val))

\* the snapshot the engine's vacuum command returns for the one it was given
PostVacuum(s) == [s EXCEPT !.vac = TRUE]

(***************************************************************************)
(* State                                                                   *)
(***************************************************************************)
VARIABLES
    tasks,        \* the asynchronous calls issued so far, in call order
    tables,       \* the RawDeltaTable behind each handle (named by its open)
    token,        \* the CancellationToken: none (not created), active,
                  \* cancelled, freed
    cancelCalls,  \* history: cancellation_token_cancel calls so far
    sync,         \* the synchronous call of the last step and what it returned
    syncCalls,    \* history: synchronous calls so far
    map,          \* the Map the caller builds with map_new / map_add
    bytes,        \* a ByteArray the bridge made from a vector, and its bytes
    meta          \* a MetadataRef text and the map read from it

\* the state of table.rs and of the token, and the state of the lib.rs values
bridge == <<tasks, tables, token, cancelCalls, sync, syncCalls>>
lib == <<map, bytes, meta>>
vars == <<tasks, tables, token, cancelCalls, sync, syncCalls, map, bytes, meta>>

TaskIds == 1..MaxCalls
Issued == 1..Len(tasks)

\* history: the calls made so far
Calls ==
    Len(tasks) + cancelCalls + syncCalls
    + (IF token = "none" THEN 0 ELSE IF token = "freed" THEN 2 ELSE 1)
    + Cardinality({h \in TaskIds : tables[h].life = "freed"})

NoTable == [life |-> "none", state |-> NoState, torn |-> FALSE]
NoSync ==
    [op |-> "none", h |-> 0, ret |-> 0, buf |-> "none", array |-> NoArray,
     cb |-> <<>>, uaf |-> FALSE, panic |-> "none"]

\* a callback invocation: is the success pointer non-null, the error's
\* category ("null" for a null error pointer), and the invoking thread
Callback(success, fail, thread) ==
    [success |-> success, fail |-> fail, thread |-> thread]

\* history of a task: the map the engine was handed (none yet), and whether
\* the caller's Map had been added to since the call
Unseen == [some |-> FALSE, data |-> {}, changed |-> FALSE]
Seen(m) == [some |-> TRUE, data |-> m.data, changed |-> FALSE]

NewTask(op, h) ==
    [op |-> op, pc |-> "spawned", h |-> h, spawned |-> TRUE,
     builder |-> NoBuilder, asked |-> NoTableOptions,
     version |-> 0, captured |-> NoCaptured,
     cmd |-> NoCmd, base |-> NoState, stale |-> FALSE,
     cb |-> <<>>, ret |-> NoArray,
     utf8 |-> TRUE, engine |-> "none", given |-> <<>>, seen |-> Unseen,
     cancelPhase |-> "none",
     afterFree |-> h # 0 /\ tables[h].life = "freed", uaf |-> FALSE]

\* handles the caller holds: every table an open has delivered, freed or not
Handles == {h \in TaskIds : tables[h].life # "none"}

\* a read of the table state through the handle: the state while the table is
\* alive, whatever the freed memory holds afterwards
ReadStates(h) == IF tables[h].life = "alive" THEN {tables[h].state} ELSE States

Freed(h) == tables[h].life = "freed"

\* no Map yet, no ByteArray yet, no metadata text yet
NoMap == [life |-> "none", data |-> {}, adds |-> <<>>]
NoBytes ==
    [vec |-> <<>>, made |-> FALSE,
     array |-> [size |-> 0, cap |-> 0, disable_free |-> FALSE, buf |-> "none"],
     drops |-> 0]
NoMeta == [given |-> FALSE, text |-> <<>>, read |-> FALSE, map |-> {}]

Init ==
    /\ tasks = <<>>
    /\ tables = [h \in TaskIds |-> NoTable]
    /\ token = "none"
    /\ cancelCalls = 0
    /\ sync = NoSync
    /\ syncCalls = 0
    /\ map = NoMap
    /\ bytes = NoBytes
    /\ meta = NoMeta


(***************************************************************************)
(* Helpers of the actions                                                  *)
(***************************************************************************)
\* the task's callback is invoked and the task ends
Deliver(t, success, fail) ==
    [t EXCEPT !.pc = "done",
              !.cb = Append(t.cb, Callback(success, fail, "worker"))]

\* the task's callback is invoked, what the task held is consumed, and the
\* task ends
Finish(t, success, fail) ==
    [Deliver(t, success, fail) EXCEPT
       !.builder = NoBuilder, !.asked = NoTableOptions,
       !.captured = NoCaptured, !.cmd = NoCmd,
       !.base = NoState, !.stale = FALSE]

\* history: the outcome of the engine call the task awaited
Awaited(t, outcome) == [t EXCEPT !.engine = outcome]

\* history: the map the task hands to the engine
Handed(t, m) ==
    [t EXCEPT !.seen =
       IF m.null THEN Unseen
       ELSE [Seen(m) EXCEPT !.changed = (map.life = "live" /\ map.adds # t.given)]]

\* history: task i writes the state of table h, so the state a vacuum on h
\* cloned before this write, and still awaits its command with, is stale
MarkStale(ts, h, i) ==
    [j \in 1..Len(ts) |->
       IF j # i /\ ts[j].op = "table_vacuum" /\ ts[j].pc = "awaiting" /\ ts[j].h = h
       THEN [ts[j] EXCEPT !.stale = TRUE] ELSE ts[j]]

\* the engine's outcomes of an awaited call
Outcomes == {"Ok"} \cup EngineErrKinds

\* history kept for each task at a cancel call: was the token cancelled while
\* the task was in flight, or only after it had completed
Phase(t) ==
    IF t.pc \in {"spawned", "awaiting"} THEN "inflight"
    ELSE IF t.cancelPhase = "none" THEN "after" ELSE t.cancelPhase

Marked(ts) == [i \in 1..Len(ts) |-> [ts[i] EXCEPT !.cancelPhase = Phase(ts[i])]]

(***************************************************************************)
(* Cancellation token (lib.rs 239-261)                                     *)
(***************************************************************************)
cancellation_token_new ==
    /\ token = "none" /\ Calls < MaxCalls
    /\ token' = "active"
    /\ sync' = NoSync
    /\ UNCHANGED <<tasks, tables, cancelCalls, syncCalls, lib>>

\* variant: cancel flips the flag back
cancellation_token_cancel_toggle ==
    /\ token \in {"active", "cancelled"}
    /\ cancelCalls < MaxCancels /\ Calls < MaxCalls
    /\ token' = IF token = "active" THEN "cancelled" ELSE "active"
    /\ cancelCalls' = cancelCalls + 1
    /\ tasks' = Marked(tasks)
    /\ sync' = NoSync
    /\ UNCHANGED <<tables, syncCalls, lib>>

\* variant: cancel invokes the callback of the completed operations again
cancellation_token_cancel_reinvoke ==
    /\ token \in {"active", "cancelled"}
    /\ cancelCalls < MaxCancels /\ Calls < MaxCalls
    /\ token' = "cancelled"
    /\ cancelCalls' = cancelCalls + 1
    /\ tasks' = [i \in Issued |->
                   IF tasks[i].pc = "done"
                   THEN [Marked(tasks)[i] EXCEPT
                           !.cb = Append(@, Callback(FALSE, "Cancelled", "caller"))]
                   ELSE Marked(tasks)[i]]
    /\ sync' = NoSync
    /\ UNCHANGED <<tables, syncCalls, lib>>

\* token.token.cancel(): the flag is set; no operation holds the token, so
\* nothing else is touched (cancelPhase is history)
cancellation_token_cancel ==
    /\ token \in {"active", "cancelled"}
    /\ cancelCalls < MaxCancels /\ Calls < MaxCalls
    /\ token' = "cancelled"
    /\ cancelCalls' = cancelCalls + 1
    /\ tasks' = Marked(tasks)
    /\ sync' = NoSync
    /\ UNCHANGED <<tables, syncCalls, lib>>

\* cancellation_token_free: the box is dropped
cancellation_token_free ==
    /\ token \in {"active", "cancelled"} /\ Calls < MaxCalls
    /\ token' = "freed"
    /\ sync' = NoSync
    /\ UNCHANGED <<tasks, tables, cancelCalls, syncCalls, lib>>

(***************************************************************************)
(* open (table.rs 73-143)                                                  *)
(***************************************************************************)
\* variant: the load is spawned whatever the bytes of the location are
table_new_unchecked(location, options) ==
    /\ Calls < MaxCalls
    /\ Cardinality({i \in Issued : tasks[i].op = "table_new"}) < MaxOpens
    /\ tasks' =
         Append(tasks,
           [NewTask("table_new", 0) EXCEPT
              !.utf8 = IsUtf8(location),
              !.builder = [BuilderFor(options) EXCEPT !.table_uri = location],
              !.asked = options,
              !.given = options.storage_options.adds])
    /\ sync' = NoSync
    /\ UNCHANGED <<tables, token, cancelCalls, syncCalls, lib>>

\* table_new on the calling thread: the UTF-8 check (on failure the callback
\* is invoked here and the call returns), the builder, the spawn.  utf8 is
\* history: were the bytes of the location well-formed; asked is history: the
\* TableOptions of the call, kept while its load is in flight
table_new(location, options) ==
    /\ Calls < MaxCalls
    /\ Cardinality({i \in Issued : tasks[i].op = "table_new"}) < MaxOpens
    /\ tasks' =
         Append(tasks,
           IF IsUtf8(location)
           THEN [NewTask("table_new", 0) EXCEPT
                   !.builder = [BuilderFor(options) EXCEPT !.table_uri = location],
                   !.asked = options,
                   !.given = options.storage_options.adds]
           ELSE [NewTask("table_new", 0) EXCEPT
                   !.utf8 = FALSE,
                   !.pc = "done", !.spawned = FALSE,
                   !.cb = <<Callback(FALSE, "Utf8", "caller")>>])
    /\ sync' = NoSync
    /\ UNCHANGED <<tables, token, cancelCalls, syncCalls, lib>>

\* the version the engine's loader loads for a builder
LoadedVersion(b) == IF b.version.some THEN b.version.val ELSE MaxVersion

\* variant: the task keeps the caller's pointer and reads the caller's Map
\* when the load starts
table_new_task_borrow(i, outcome) ==
    LET now == IF tasks[i].builder.storage_options.null \/ map.life # "live"
               THEN tasks[i].builder.storage_options
               ELSE [null |-> FALSE, data |-> map.data, adds |-> <<>>]
    IN
    /\ i \in Issued
    /\ tasks[i].op = "table_new" /\ tasks[i].pc = "spawned"
    /\ IF outcome = "Ok"
       THEN /\ tables' = [tables EXCEPT ![i] =
                 [NoTable EXCEPT !.life = "alive",
                                 !.state = Snapshot(LoadedVersion(tasks[i].builder))]]
            /\ tasks' = [tasks EXCEPT ![i] =
                 Finish(Handed(Awaited(@, outcome), now), TRUE, "null")]
       ELSE /\ tasks' = [tasks EXCEPT ![i] =
                 Finish(Handed(Awaited(@, outcome), now), FALSE, FromError(outcome))]
            /\ UNCHANGED tables
    /\ sync' = NoSync
    /\ UNCHANGED <<token, cancelCalls, syncCalls, lib>>

\* variant: the error branch returns without invoking the callback
table_new_task_drop(i, outcome) ==
    /\ i \in Issued
    /\ tasks[i].op = "table_new" /\ tasks[i].pc = "spawned"
    /\ IF outcome = "Ok"
       THEN /\ tables' = [tables EXCEPT ![i] =
                 [NoTable EXCEPT !.life = "alive",
                                 !.state = Snapshot(LoadedVersion(tasks[i].builder))]]
            /\ tasks' = [tasks EXCEPT ![i] =
                 Finish(Handed(Awaited(@, outcome), @.builder.storage_options),
                        TRUE, "null")]
       ELSE /\ tasks' = [tasks EXCEPT ![i] =
                 [Finish(Handed(Awaited(@, outcome), @.builder.storage_options),
                         FALSE, "null") EXCEPT !.cb = <<>>]]
            /\ UNCHANGED tables
    /\ sync' = NoSync
    /\ UNCHANGED <<token, cancelCalls, syncCalls, lib>>

\* the spawned task of table_new (lines 123-142): builder.load().await, then
\* the callback with a fresh handle or with the translated error
table_new_task(i, outcome) ==
    /\ i \in Issued
    /\ tasks[i].op = "table_new" /\ tasks[i].pc = "spawned"
    /\ IF outcome = "Ok"
       THEN /\ tables' = [tables EXCEPT ![i] =
                 [NoTable EXCEPT !.life = "alive",
                                 !.state = Snapshot(LoadedVersion(tasks[i].builder))]]
            /\ tasks' = [tasks EXCEPT ![i] =
                 Finish(Handed(Awaited(@, outcome), @.builder.storage_options),
                        TRUE, "null")]
       ELSE /\ tasks' = [tasks EXCEPT ![i] =
                 Finish(Handed(Awaited(@, outcome), @.builder.storage_options),
                        FALSE, FromError(outcome))]
            /\ UNCHANGED tables
    /\ sync' = NoSync
    /\ UNCHANGED <<token, cancelCalls, syncCalls, lib>>

\* table_free (lines 66-71): the box is dropped; the pointer the caller holds
\* is left as it was
table_free(h) ==
    /\ tables[h].life = "alive" /\ Calls < MaxCalls
    /\ tables' = [tables EXCEPT ![h].life = "freed"]
    /\ sync' = NoSync
    /\ UNCHANGED <<tasks, token, cancelCalls, syncCalls, lib>>


(***************************************************************************)
(* Synchronous operations, on the calling thread                           *)
(***************************************************************************)
\* table_version (lines 414-417, do_with_table 453-459): the version of the
\* state read through the pointer, -1 without a state
table_version(h) ==
    /\ h \in Handles /\ Calls < MaxCalls
    /\ \E s \in ReadStates(h) :
         sync' = [NoSync EXCEPT !.op = "table_version", !.h = h, !.uaf = Freed(h), !.ret = s.version]
    /\ syncCalls' = syncCalls + 1
    /\ UNCHANGED <<tasks, tables, token, cancelCalls>>
    /\ UNCHANGED lib

\* table_uri (lines 59-64): the uri as an owned ByteArray
table_uri(h) ==
    /\ h \in Handles /\ Calls < MaxCalls
    /\ sync' = [NoSync EXCEPT !.op = "table_uri", !.h = h, !.uaf = Freed(h),
                              !.buf = ByteArrayFromUtf8(FileA).buf]
    /\ syncCalls' = syncCalls + 1
    /\ UNCHANGED <<tasks, tables, token, cancelCalls>>
    /\ UNCHANGED lib

\* what table_file_uris and table_files return for the state they read: the
\* engine lists the files of a loaded snapshot and fails without one
FileList(op, h, s) ==
    IF s.some
    THEN [NoSync EXCEPT !.op = op, !.h = h, !.uaf = Freed(h),
                        !.array = FromVecString(FilesOf(s)),
                        !.cb = <<Callback(TRUE, "null", "caller")>>]
    ELSE [NoSync EXCEPT !.op = op, !.h = h, !.uaf = Freed(h),
                        !.cb = <<Callback(FALSE, FromError("NoMetadata"), "caller")>>]

\* table_file_uris (lines 145-165)
table_file_uris(h) ==
    /\ h \in Handles /\ Calls < MaxCalls
    /\ \E s \in ReadStates(h) : sync' = FileList("table_file_uris", h, s)
    /\ syncCalls' = syncCalls + 1
    /\ UNCHANGED <<tasks, tables, token, cancelCalls>>
    /\ UNCHANGED lib

\* table_files (lines 167-185)
table_files(h) ==
    /\ h \in Handles /\ Calls < MaxCalls
    /\ \E s \in ReadStates(h) : sync' = FileList("table_files", h, s)
    /\ syncCalls' = syncCalls + 1
    /\ UNCHANGED <<tasks, tables, token, cancelCalls>>
    /\ UNCHANGED lib

\* table_schema (lines 284-311): the callback runs inside the call, with the
\* serialized schema of the state read or with get_schema's error
table_schema(h) ==
    /\ h \in Handles /\ Calls < MaxCalls
    /\ \E s \in ReadStates(h) :
         sync' = [NoSync EXCEPT !.op = "table_schema", !.h = h, !.uaf = Freed(h),
                    !.cb = IF s.some
                           THEN <<Callback(TRUE, "null", "caller")>>
                           ELSE <<Callback(FALSE, FromError("NoMetadata"), "caller")>>]
    /\ syncCalls' = syncCalls + 1
    /\ UNCHANGED <<tasks, tables, token, cancelCalls>>
    /\ UNCHANGED lib

(***************************************************************************)
(* Operations without an implementation                                    *)
(***************************************************************************)
\* a panic on the calling thread inside an extern "C" function: the process
\* is aborted, or the panic unwinds into the foreign caller
PanicOutcomes == {"abort", "unwind"}

\* unimplemented!() / todo!(): the call panics; the callback it was given is
\* not invoked
Unimplemented(op, h, outcome) ==
    [NoSync EXCEPT !.op = op, !.h = h, !.panic = outcome]

\* history (lines 187-195): unimplemented!()
history(h) ==
    /\ h \in Handles /\ Calls < MaxCalls
    /\ \E outcome \in PanicOutcomes : sync' = Unimplemented("history", h, outcome)
    /\ syncCalls' = syncCalls + 1
    /\ UNCHANGED <<tasks, tables, token, cancelCalls>>
    /\ UNCHANGED lib

\* table_load_with_datetime (lines 234-242): unimplemented!()
table_load_with_datetime(h) ==
    /\ h \in Handles /\ Calls < MaxCalls
    /\ \E outcome \in PanicOutcomes : sync' = Unimplemented("table_load_with_datetime", h, outcome)
    /\ syncCalls' = syncCalls + 1
    /\ UNCHANGED <<tasks, tables, token, cancelCalls>>
    /\ UNCHANGED lib

\* table_merge (lines 244-252): unimplemented!()
table_merge(h) ==
    /\ h \in Handles /\ Calls < MaxCalls
    /\ \E outcome \in PanicOutcomes : sync' = Unimplemented("table_merge", h, outcome)
    /\ syncCalls' = syncCalls + 1
    /\ UNCHANGED <<tasks, tables, token, cancelCalls>>
    /\ UNCHANGED lib

\* table_protocol (lines 254-262): unimplemented!()
table_protocol(h) ==
    /\ h \in Handles /\ Calls < MaxCalls
    /\ \E outcome \in PanicOutcomes : sync' = Unimplemented("table_protocol", h, outcome)
    /\ syncCalls' = syncCalls + 1
    /\ UNCHANGED <<tasks, tables, token, cancelCalls>>
    /\ UNCHANGED lib

\* table_restore (lines 264-272): unimplemented!()
table_restore(h) ==
    /\ h \in Handles /\ Calls < MaxCalls
    /\ \E outcome \in PanicOutcomes : sync' = Unimplemented("table_restore", h, outcome)
    /\ syncCalls' = syncCalls + 1
    /\ UNCHANGED <<tasks, tables, token, cancelCalls>>
    /\ UNCHANGED lib

\* table_update (lines 274-282): unimplemented!()
table_update(h) ==
    /\ h \in Handles /\ Calls < MaxCalls
    /\ \E outcome \in PanicOutcomes : sync' = Unimplemented("table_update", h, outcome)
    /\ syncCalls' = syncCalls + 1
    /\ UNCHANGED <<tasks, tables, token, cancelCalls>>
    /\ UNCHANGED lib

\* table_metadata (lines 419-425): the metadata is read through the handle,
\* then both arms are todo!()
table_metadata(h) ==
    /\ h \in Handles /\ Calls < MaxCalls
    /\ \E outcome \in PanicOutcomes :
         sync' = [Unimplemented("table_metadata", h, outcome) EXCEPT !.uaf = Freed(h)]
    /\ syncCalls' = syncCalls + 1
    /\ UNCHANGED <<tasks, tables, token, cancelCalls>>
    /\ UNCHANGED lib

(***************************************************************************)
(* Asynchronous table operations: the call on the calling thread           *)
(***************************************************************************)
\* do_with_table_and_runtime (lines 427-438): both pointers are turned into
\* references and the work is spawned; nothing is read from the table here
do_with_table_and_runtime(task) == Append(tasks, task)

\* table_update_incremental (lines 197-214)
table_update_incremental(h) ==
    /\ h \in Handles /\ Calls < MaxCalls
    /\ tasks' = do_with_table_and_runtime(NewTask("table_update_incremental", h))
    /\ sync' = NoSync
    /\ UNCHANGED <<tables, token, cancelCalls, syncCalls, lib>>

\* table_load_version (lines 216-232)
table_load_version(h, version) ==
    /\ h \in Handles /\ Calls < MaxCalls
    /\ tasks' = do_with_table_and_runtime(
                  [NewTask("table_load_version", h) EXCEPT !.version = version])
    /\ sync' = NoSync
    /\ UNCHANGED <<tables, token, cancelCalls, syncCalls, lib>>

\* table_checkpoint (lines 313-331)
table_checkpoint(h) ==
    /\ h \in Handles /\ Calls < MaxCalls
    /\ tasks' = do_with_table_and_runtime(NewTask("table_checkpoint", h))
    /\ sync' = NoSync
    /\ UNCHANGED <<tables, token, cancelCalls, syncCalls, lib>>

\* table_vacuum (lines 333-382): the options are copied, then the work is
\* spawned
table_vacuum(h, options) ==
    /\ h \in Handles /\ Calls < MaxCalls
    /\ tasks' = do_with_table_and_runtime(
                  [NewTask("table_vacuum", h) EXCEPT
                     !.captured = Captured(options),
                     !.given = options.custom_metadata.adds])
    /\ sync' = NoSync
    /\ UNCHANGED <<tables, token, cancelCalls, syncCalls, lib>>

(***************************************************************************)
(* Asynchronous table operations: the spawned tasks                        *)
(***************************************************************************)
\* history: the task touches the table behind its handle
Touch(t) == [t EXCEPT !.uaf = (@ \/ Freed(t.h))]

\* the task of table_update_incremental: the engine brings the table to the
\* latest version or fails
table_update_incremental_task(i, outcome) ==
    LET h == tasks[i].h IN
    /\ i \in Issued
    /\ tasks[i].op = "table_update_incremental" /\ tasks[i].pc = "spawned"
    /\ IF outcome = "Ok"
       THEN /\ tables' = [tables EXCEPT ![h].state = Snapshot(MaxVersion)]
            /\ tasks' = [MarkStale(tasks, h, i) EXCEPT
                           ![i] = Finish(Awaited(Touch(@), outcome), FALSE, "null")]
       ELSE /\ tasks' = [tasks EXCEPT
                           ![i] = Finish(Awaited(Touch(@), outcome), FALSE,
                                         FromError(outcome))]
            /\ UNCHANGED tables
    /\ sync' = NoSync
    /\ UNCHANGED <<token, cancelCalls, syncCalls, lib>>

\* the task of table_load_version: the engine loads the version asked for; a
\* load that goes back to an older version first drops the state, and a failed
\* load leaves it dropped
table_load_version_task(i, outcome) ==
    LET h == tasks[i].h
        v == tasks[i].version
        back == tables[h].state.some /\ tables[h].state.version > v
    IN
    /\ i \in Issued
    /\ tasks[i].op = "table_load_version" /\ tasks[i].pc = "spawned"
    /\ IF outcome = "Ok"
       THEN /\ tables' = [tables EXCEPT ![h].state = Snapshot(v)]
            /\ tasks' = [MarkStale(tasks, h, i) EXCEPT
                           ![i] = Finish(Awaited(Touch(@), outcome), FALSE, "null")]
       ELSE /\ tables' = [tables EXCEPT ![h].state = IF back THEN NoState ELSE @]
            /\ tasks' = [(IF back THEN MarkStale(tasks, h, i) ELSE tasks) EXCEPT
                           ![i] = Finish(Awaited(Touch(@), outcome), FALSE,
                                         FromError(outcome))]
    /\ sync' = NoSync
    /\ UNCHANGED <<token, cancelCalls, syncCalls, lib>>

\* variant: the engine's error is translated like those of the other
\* operations
table_checkpoint_task_translate(i, outcome) ==
    /\ i \in Issued
    /\ tasks[i].op = "table_checkpoint" /\ tasks[i].pc = "spawned"
    /\ tasks' = [tasks EXCEPT ![i] =
         Finish(Awaited(Touch(@), outcome), FALSE,
                IF outcome = "Ok" THEN "null" ELSE FromError(outcome))]
    /\ sync' = NoSync
    /\ UNCHANGED <<tables, token, cancelCalls, syncCalls, lib>>

\* the task of table_checkpoint: every engine error is reported as Protocol
table_checkpoint_task(i, outcome) ==
    /\ i \in Issued
    /\ tasks[i].op = "table_checkpoint" /\ tasks[i].pc = "spawned"
    /\ tasks' = [tasks EXCEPT ![i] =
         Finish(Awaited(Touch(@), outcome), FALSE,
                IF outcome = "Ok" THEN "null" ELSE "Protocol")]
    /\ sync' = NoSync
    /\ UNCHANGED <<tables, token, cancelCalls, syncCalls, lib>>

\* the task of table_vacuum up to `cmd.await` (vacuum, lines 391-409): the
\* state check, the clone of the state, the command
vacuum_begin(i) ==
    LET h == tasks[i].h
        c == tasks[i].captured
    IN
    /\ i \in Issued
    /\ tasks[i].op = "table_vacuum" /\ tasks[i].pc = "spawned"
    /\ \E s \in ReadStates(h) :
         tasks' = [tasks EXCEPT ![i] =
           IF ~s.some THEN Finish(Touch(@), FALSE, FromError("NoMetadata"))
           ELSE IF VacuumPanics(c)
           THEN [Touch(@) EXCEPT !.pc = "panicked", !.captured = NoCaptured]
           ELSE [Handed(Touch(@), VacuumCmd(c).metadata) EXCEPT
                   !.pc = "awaiting", !.base = s,
                   !.captured = NoCaptured, !.cmd = VacuumCmd(c)]]
    /\ sync' = NoSync
    /\ UNCHANGED <<tables, token, cancelCalls, syncCalls, lib>>

\* the task of table_vacuum from `cmd.await` on (vacuum lines 409-411,
\* table_vacuum lines 370-379): the state is replaced by the engine's result
\* and the deleted files are handed over, or the error is
vacuum_end(i, outcome, deleted) ==
    LET h == tasks[i].h IN
    /\ i \in Issued
    /\ tasks[i].op = "table_vacuum" /\ tasks[i].pc = "awaiting"
    /\ IF outcome = "Ok"
       THEN /\ tables' = [tables EXCEPT ![h] =
                 [@ EXCEPT !.state = PostVacuum(tasks[i].base),
                           !.torn = (@ \/ tasks[i].stale)]]
            /\ tasks' = [MarkStale(tasks, h, i) EXCEPT ![i] =
                 [Finish(Awaited(Touch(@), outcome), TRUE, "null") EXCEPT
                    !.ret = FromVecString(deleted)]]
       ELSE /\ deleted = <<>>
            /\ tasks' = [tasks EXCEPT ![i] =
                 Finish(Awaited(@, outcome), FALSE, FromError(outcome))]
            /\ UNCHANGED tables
    /\ sync' = NoSync
    /\ UNCHANGED <<token, cancelCalls, syncCalls, lib>>

(***************************************************************************)
(* The caller's Map (lib.rs 32-58)                                         *)
(***************************************************************************)
\* the <<key, value>> pairs the caller adds: the key "k" with two values, and
\* the empty key
MapAdds == {<<<<107>>, <<118>>>>, <<<<107>>, <<>>>>, <<<<>>, <<118>>>>}

\* map_new: a fresh, empty Map behind a pointer
map_new ==
    /\ map.life = "none"
    /\ map' = [life |-> "live", data |-> {}, adds |-> <<>>]
    /\ UNCHANGED <<bridge, bytes, meta>>

\* HashMap::insert: the key's value is replaced when the key is present
Insert(data, key, value) == {p \in data : p[1] # key} \cup {<<key, value>>}

\* variant: a key that is present keeps its value
map_add_keep(key, value) ==
    /\ map.life = "live" /\ Len(map.adds) < MaxAdds
    /\ map' = [map EXCEPT
                 !.data = IF \E p \in @ : p[1] = key THEN @ ELSE Insert(@, key, value),
                 !.adds = Append(@, <<key, value>>)]
    /\ UNCHANGED <<bridge, bytes, meta>>

\* map_add on a Map made by map_new: key and value are copied into Strings
\* and inserted (with a null map the call returns false and does nothing)
map_add(key, value) ==
    /\ map.life = "live" /\ Len(map.adds) < MaxAdds
    /\ map' = [map EXCEPT !.data = Insert(@, key, value),
                          !.adds = Append(@, <<key, value>>)]
    /\ UNCHANGED <<bridge, bytes, meta>>

\* the *const Map the caller passes: its Map, or null before map_new
MapArg ==
    IF map.life = "live"
    THEN [null |-> FALSE, data |-> map.data, adds |-> map.adds]
    ELSE NullMap

\* the options of a caller that passes its Map
MapTableOptions ==
    [version |-> 0, storage_options |-> MapArg, without_files |-> FALSE,
     log_buffer_size |-> 0]
MapVacuumOptions == [NoVacuumOptions EXCEPT !.custom_metadata = MapArg]

(***************************************************************************)
(* ByteArray (lib.rs 184-237)                                              *)
(***************************************************************************)
\* the byte vectors a ByteArray is made from
ByteValues == {0, 97, 255}
Vecs == UNION {[1..n -> ByteValues] : n \in 0..MaxVec}

\* ByteArray::from_vec
from_vec(vec) ==
    /\ ~bytes.made
    /\ bytes' = [vec |-> vec, made |-> TRUE, array |-> ByteArrayFromVec(vec),
                 drops |-> 0]
    /\ UNCHANGED <<bridge, map, meta>>

\* ByteArray::from_vec_disable_free
from_vec_disable_free(vec) ==
    /\ ~bytes.made
    /\ bytes' = [vec |-> vec, made |-> TRUE,
                 array |-> ByteArrayFromVecDisableFree(vec), drops |-> 0]
    /\ UNCHANGED <<bridge, map, meta>>

\* Drop for ByteArray: the ByteArray goes out of scope (drops is history)
drop ==
    /\ bytes.made /\ bytes.drops = 0
    /\ bytes' = [bytes EXCEPT !.array = DropByteArray(@), !.drops = 1]
    /\ UNCHANGED <<bridge, map, meta>>

(***************************************************************************)
(* Metadata text (lib.rs 140-157)                                          *)
(***************************************************************************)
\* the newline, and the characters of a metadata text: newline, "a", "b"
NL == 10
TextChars == {NL, 97, 98}
Texts == UNION {[1..n -> TextChars] : n \in 0..MaxText}

\* str::split(sep): the pieces between the separators, one more than there
\* are separators
RECURSIVE Split(_, _)
Split(str, sep) ==
    IF \A k \in 1..Len(str) : str[k] # sep THEN <<str>>
    ELSE LET k == CHOOSE k \in 1..Len(str) :
                     str[k] = sep /\ \A j \in 1..(k - 1) : str[j] # sep
         IN <<SubSeq(str, 1, k - 1)>> \o Split(SubSeq(str, k + 1, Len(str)), sep)

\* chunks_exact(2): the complete pairs, the remainder left out
ChunksExact2(strs) ==
    [i \in 1..(Len(strs) \div 2) |-> <<strs[2 * i - 1], strs[2 * i]>>]

\* collect() into a HashMap: the pairs are inserted in order
RECURSIVE Collect(_)
Collect(pairs) ==
    IF pairs = <<>> THEN {}
    ELSE LET n == Len(pairs)
         IN Insert(Collect(SubSeq(pairs, 1, n - 1)), pairs[n][1], pairs[n][2])

\* variant: a key that came earlier keeps its value
to_str_map_on_newlines_first(self) ==
    LET pairs == ChunksExact2(Split(self, NL))
    IN {pairs[i] : i \in {i \in 1..Len(pairs) :
                            \A j \in 1..(i - 1) : pairs[j][1] # pairs[i][1]}}

\* ByteArrayRef::to_str_map_on_newlines
to_str_map_on_newlines(self) == Collect(ChunksExact2(Split(self, NL)))

\* ByteArrayRef::from_str: a MetadataRef over a text of the caller
from_str(s) ==
    /\ ~meta.given
    /\ meta' = [given |-> TRUE, text |-> s, read |-> FALSE, map |-> {}]
    /\ UNCHANGED <<bridge, map, bytes>>

\* ByteArrayRef::to_string_map_on_newlines: the map read from the text, keys
\* and values as owned Strings
to_string_map_on_newlines ==
    /\ meta.given /\ ~meta.read
    /\ meta' = [meta EXCEPT !.read = TRUE,
                            !.map = to_str_map_on_newlines(meta.text)]
    /\ UNCHANGED <<bridge, map, bytes>>

(***************************************************************************)
(* Specification                                                           *)
(***************************************************************************)
\* the steps of the caller
Caller ==
    \/ \E location \in Locations, options \in TableOptionsSet :
         table_new(location, options)
    \/ \E h \in TaskIds : table_free(h)
    \/ \E h \in TaskIds : table_version(h)
    \/ \E h \in TaskIds : table_uri(h)
    \/ \E h \in TaskIds : table_file_uris(h)
    \/ \E h \in TaskIds : table_files(h)
    \/ \E h \in TaskIds : table_schema(h)
    \/ \E h \in TaskIds : history(h)
    \/ \E h \in TaskIds : table_load_with_datetime(h)
    \/ \E h \in TaskIds : table_merge(h)
    \/ \E h \in TaskIds : table_protocol(h)
    \/ \E h \in TaskIds : table_restore(h)
    \/ \E h \in TaskIds : table_update(h)
    \/ \E h \in TaskIds : table_metadata(h)
    \/ \E h \in TaskIds : table_update_incremental(h)
    \/ \E h \in TaskIds, v \in 0..MaxVersion : table_load_version(h, v)
    \/ \E h \in TaskIds : table_checkpoint(h)
    \/ \E h \in TaskIds, options \in VacuumOptionsSet : table_vacuum(h, options)
    \/ cancellation_token_new
    \/ cancellation_token_cancel
    \/ cancellation_token_free

\* the steps of the runtime's worker threads on task i
Worker(i) ==
    \/ \E o \in Outcomes : table_new_task(i, o)
    \/ \E o \in Outcomes : table_update_incremental_task(i, o)
    \/ \E o \in Outcomes : table_load_version_task(i, o)
    \/ \E o \in Outcomes : table_checkpoint_task(i, o)
    \/ vacuum_begin(i)
    \/ \E o \in Outcomes, d \in DeletedSets : vacuum_end(i, o, d)

Next == Caller \/ \E i \in TaskIds : Worker(i)

Spec == Init /\ [][Next]_vars

\* the runtime runs every spawned task, and the engine's calls return
FairSpec == Spec /\ \A i \in TaskIds : WF_vars(Worker(i))

\* a caller that builds a Map and passes it to the operations that take one,
\* and the tasks of those operations.  What the engine is handed does not
\* depend on how its call ends, so the engine's calls succeed here
NextMap ==
    \/ map_new
    \/ \E kv \in MapAdds : map_add(kv[1], kv[2])
    \/ table_new(<<97>>, MapTableOptions)
    \/ \E h \in TaskIds : table_vacuum(h, MapVacuumOptions)
    \/ \E i \in TaskIds : table_new_task(i, "Ok")
    \/ \E i \in TaskIds : vacuum_begin(i)
    \/ \E i \in TaskIds : vacuum_end(i, "Ok", <<>>)

MapSpec == Init /\ [][NextMap]_vars

\* a ByteArray made from a vector and dropped
NextBytes ==
    \/ \E vec \in Vecs : from_vec(vec)
    \/ \E vec \in Vecs : from_vec_disable_free(vec)
    \/ drop

BytesSpec == Init /\ [][NextBytes]_vars

\* a metadata text and its reading
NextText ==
    \/ \E s \in Texts : from_str(s)
    \/ to_string_map_on_newlines

TextSpec == Init /\ [][NextText]_vars

\* a caller that opens a table with any of the TableOptions, reads the
\* version of the table it was handed and frees it, and the task of the open
NextOpen ==
    \/ \E location \in Locations, options \in OpenOptionsSet :
         table_new(location, options)
    \/ \E i \in TaskIds, o \in Outcomes : table_new_task(i, o)
    \/ \E h \in TaskIds : table_version(h)
    \/ \E h \in TaskIds : table_free(h)

OpenSpec == Init /\ [][NextOpen]_vars


(***************************************************************************)
(* Properties                                                              *)
(***************************************************************************)
Ended(t) == t.pc \in {"done", "panicked"}
TableOps ==
    {"table_update_incremental", "table_load_version", "table_checkpoint",
     "table_vacuum"}

\* an invocation carries a success payload or an error, not both, not neither
\* (an operation without a payload succeeds with a null error alone)
OneOf(op, c) ==
    IF op \in {"table_new", "table_vacuum"}
    THEN c.success # (c.fail # "null")
    ELSE ~c.success

\* an open whose location was valid UTF-8
ValidOpen(i) == i \in Issued /\ tasks[i].op = "table_new" /\ tasks[i].spawned

C1_Safe ==
    \A i \in Issued : ValidOpen(i) =>
        /\ Len(tasks[i].cb) <= 1
        /\ Ended(tasks[i]) => Len(tasks[i].cb) = 1
        /\ \A k \in 1..Len(tasks[i].cb) :
             /\ OneOf("table_new", tasks[i].cb[k])
             /\ tasks[i].cb[k].success <=> tables[i].life # "none"

\* C1: every open with a valid UTF-8 location eventually has its callback
\* invoked, exactly once, with a handle and a null error or with a null handle
\* and an error, never both
C1_OpenCallsBackOnce ==
    /\ []C1_Safe
    /\ \A i \in TaskIds : ValidOpen(i) ~> (ValidOpen(i) /\ Len(tasks[i].cb) = 1)

\* an open has delivered a handle, and none of its callbacks carried an error
C1_Witness ==
    \E i \in Issued :
        /\ ValidOpen(i) /\ tasks[i].pc = "done"
        /\ tasks[i].cb = <<Callback(TRUE, "null", "worker")>>
        /\ tables[i].life = "alive"

\* C2: every asynchronous table operation that has ended has invoked its
\* callback exactly once, with exactly one of a success payload and an error
C2_TableOpCallsBackOnce ==
    \A i \in Issued : tasks[i].op \in TableOps =>
        /\ Len(tasks[i].cb) <= 1
        /\ Ended(tasks[i]) => Len(tasks[i].cb) = 1
        /\ \A k \in 1..Len(tasks[i].cb) : OneOf(tasks[i].op, tasks[i].cb[k])

\* the table operations on handle h are exactly a load_version i and a
\* vacuum j, and both have succeeded
LoadAndVacuum(h, i, j) ==
    /\ tasks[i].op = "table_load_version" /\ tasks[j].op = "table_vacuum"
    /\ \A k \in Issued : tasks[k].h = h => k \in {i, j}
    /\ tasks[i].h = h /\ tasks[j].h = h
    /\ tasks[i].pc = "done" /\ tasks[i].cb[1].fail = "null"
    /\ tasks[j].pc = "done" /\ tasks[j].cb[1].fail = "null"

\* C3: concurrent mutating operations on one handle leave it in the state of
\* a serial order: no operation overwrites another's update with a state
\* derived from the snapshot it read before that update, and after a
\* load_version(V) and a vacuum the table is at version V, as in both orders
C3_SerialOutcome ==
    \A h \in TaskIds :
        /\ ~tables[h].torn
        /\ \A i, j \in Issued :
             (tables[h].life = "alive" /\ LoadAndVacuum(h, i, j))
                => tables[h].state.version = tasks[i].version

\* C4: a table_vacuum call on a handle without a snapshot state spawns no
\* task: the call itself reports NoMetadata
C4_NoStateFailsBeforeSpawn ==
    [][\A h \in TaskIds :
         (/\ Len(tasks') = Len(tasks) + 1
          /\ tasks'[Len(tasks')].op = "table_vacuum"
          /\ tasks'[Len(tasks')].h = h
          /\ tables[h].life = "alive" /\ ~tables[h].state.some)
         => (/\ ~tasks'[Len(tasks')].spawned
             /\ tasks'[Len(tasks')].pc = "done"
             /\ Len(tasks'[Len(tasks')].cb) = 1
             /\ tasks'[Len(tasks')].cb[1].fail = "NoMetadata")]_vars

\* a DynamicArray in the caller's hands still has its storage
Owned(a) ==
    a.null \/ (a.block # "freed" /\ \A k \in 1..Len(a.bufs) : a.bufs[k] # "freed")

\* C5: the element block and every element's byte buffer of a DynamicArray
\* returned by table_file_uris, table_files or table_vacuum are still
\* allocated while the caller holds the array
C5_ArrayOwnsStorage ==
    /\ Owned(sync.array)
    /\ \A i \in Issued : Owned(tasks[i].ret)

\* C6: when the vacuum task builds the engine command, retention_hours = 0
\* sets no retention period and retention_hours = N > 0 sets exactly N hours
C6_RetentionExactHours ==
    [][\A i \in Issued :
         (/\ tasks[i].op = "table_vacuum" /\ tasks[i].pc = "spawned"
          /\ tasks'[i].pc \in {"awaiting", "panicked"})
         => LET r == tasks[i].captured.retention_hours
                d == tasks'[i].cmd.retention
            IN /\ tasks'[i].pc = "awaiting"
               /\ r.some <=> d.some
               /\ r.some => (d.val % 3600 = 0 /\ d.val \div 3600 = r.val)]_vars

\* C7: an operation that was in flight when the token was cancelled delivers
\* its callback with the cancelled category
C7_CancelledOutcome ==
    \A i \in Issued :
        (tasks[i].cancelPhase = "inflight" /\ Ended(tasks[i]))
            => (Len(tasks[i].cb) = 1 /\ tasks[i].cb[1].fail = "Cancelled")

C8_Inv ==
    /\ token = "none" => cancelCalls = 0
    /\ token = "active" => cancelCalls = 0
    /\ token = "cancelled" => cancelCalls > 0
    /\ cancelCalls > 0 => token \in {"cancelled", "freed"}

\* C8: a token starts active, is cancelled exactly when cancel has been called
\* at least once, and once cancelled stays cancelled until it is freed
C8_TokenCancelledOnce ==
    /\ []C8_Inv
    /\ [][(token = "none" /\ token' # "none") => token' = "active"]_vars
    /\ [][token = "cancelled" => token' \in {"cancelled", "freed"}]_vars

\* cancel was called on a token that was cancelled already
C8_Witness == token = "cancelled" /\ cancelCalls = 2

\* C9: a cancel call leaves every completed operation as it is: its callback
\* is not invoked again and nothing of it or of its table changes
C9_CancelAfterCompletion ==
    [][cancelCalls' # cancelCalls =>
         /\ Len(tasks') = Len(tasks)
         /\ tables' = tables
         /\ \A i \in Issued : tasks[i].pc = "done" =>
              (tasks'[i].pc = "done" /\ tasks'[i].cb = tasks[i].cb)]_vars

\* the token was cancelled after an operation had delivered its one callback
C9_Witness ==
    \E i \in Issued :
        /\ tasks[i].cancelPhase = "after" /\ tasks[i].pc = "done"
        /\ Len(tasks[i].cb) = 1 /\ tasks[i].spawned
        /\ token = "cancelled"

\* C10: no operation issued on a freed handle reads or writes the memory of
\* the destroyed table
C10_UseAfterFreeDetected ==
    /\ ~sync.uaf
    /\ \A i \in Issued : tasks[i].afterFree => ~tasks[i].uaf

\* the operations that have no implementation
Stubs ==
    {"history", "table_load_with_datetime", "table_merge", "table_protocol",
     "table_restore", "table_update", "table_metadata"}

\* C12: a call of an operation without an implementation does not panic: it
\* reports an error of the not-implemented category through its callback
C12_NotImplementedReported ==
    sync.op \in Stubs =>
        /\ sync.panic = "none"
        /\ Len(sync.cb) = 1
        /\ ~sync.cb[1].success /\ sync.cb[1].fail = "NotImplemented"

\* the asynchronous operations
AsyncOps == {"table_new"} \cup TableOps

\* C13: the call of an asynchronous operation returns with the callback not
\* yet invoked, and every invocation of the callback is made by a worker
\* thread of the runtime
C13_CallbackFromWorker ==
    \A i \in Issued : tasks[i].op \in AsyncOps =>
        \A k \in 1..Len(tasks[i].cb) : tasks[i].cb[k].thread = "worker"

\* an open whose location was not well-formed UTF-8
InvalidOpen(i) == i \in Issued /\ tasks[i].op = "table_new" /\ ~tasks[i].utf8

C14_Inv ==
    \A i \in Issued : InvalidOpen(i) =>
        /\ tasks[i].cb = <<Callback(FALSE, "Utf8", "caller")>>
        /\ ~tasks[i].spawned /\ tasks[i].pc = "done"
        /\ tasks[i].builder = NoBuilder /\ tasks[i].engine = "none"
        /\ tables[i].life = "none"

\* C14: an open whose location is not valid UTF-8 invokes its callback exactly
\* once, with a null handle and an error of the Utf8 category; no task is
\* spawned for it, the engine's load is never started, and nothing of the call
\* changes afterwards
C14_InvalidUtf8 ==
    /\ []C14_Inv
    /\ [][\A i \in Issued : InvalidOpen(i) =>
              [tasks'[i] EXCEPT !.cancelPhase = tasks[i].cancelPhase] = tasks[i]]_vars

\* an open with an ill-formed location has returned, its one callback invoked
\* on the calling thread, and another call has been made since
C14_Witness ==
    \E i \in Issued :
        /\ InvalidOpen(i) /\ Len(tasks[i].cb) = 1
        /\ tasks[i].cb[1].fail = "Utf8" /\ ~tasks[i].cb[1].success
        /\ Calls > 1

\* C15: a checkpoint whose engine call failed, with whatever error kind,
\* invokes its callback with an error of the Protocol category; one whose
\* engine call succeeded invokes it with a null error
C15_CheckpointProtocol ==
    \A i \in Issued :
        (tasks[i].op = "table_checkpoint" /\ tasks[i].pc = "done") =>
            /\ Len(tasks[i].cb) = 1 /\ ~tasks[i].cb[1].success
            /\ tasks[i].engine \in Outcomes
            /\ tasks[i].engine = "Ok" => tasks[i].cb[1].fail = "null"
            /\ tasks[i].engine \in EngineErrKinds => tasks[i].cb[1].fail = "Protocol"

\* a checkpoint failed in the engine with a kind that from_error would have
\* reported as NotFound, and its callback carried Protocol
C15_Witness ==
    \E i \in Issued :
        /\ tasks[i].op = "table_checkpoint" /\ tasks[i].pc = "done"
        /\ tasks[i].engine = "NotATable" /\ tasks[i].cb[1].fail = "Protocol"

\* C16: a step of a vacuum task changes the state behind its handle only when
\* the engine command succeeded: then the state is the one the engine returned
\* and the callback is given the list of deleted file names, readable by the
\* caller; every other step of the task leaves the table as it is
C16_VacuumState ==
    [][\A i \in Issued :
         (tasks[i].op = "table_vacuum" /\ tasks'[i].pc # tasks[i].pc) =>
            LET h == tasks[i].h IN
            IF tasks'[i].pc = "done" /\ tasks'[i].engine = "Ok"
            THEN /\ tables'[h].state = PostVacuum(tasks[i].base)
                 /\ tasks'[i].cb = <<Callback(TRUE, "null", "worker")>>
                 /\ ~tasks'[i].ret.null /\ Owned(tasks'[i].ret)
            ELSE /\ tables' = tables
                 /\ tasks'[i].ret.null]_vars

\* C18: a task spawned while its handle was alive does all its reads and
\* writes of the table while the handle is still alive
C18_InFlightNeverAfterFree ==
    \A i \in Issued :
        (tasks[i].op \in TableOps /\ ~tasks[i].afterFree) => ~tasks[i].uaf

\* the key -> value set a sequence of map_add calls leaves: for each key the
\* value of its last add
Expected(adds) ==
    {adds[j] : j \in {j \in 1..Len(adds) :
                        \A l \in (j + 1)..Len(adds) : adds[l][1] # adds[j][1]}}

\* has the task handed its inputs to the engine
Consumed(t) ==
    IF t.op = "table_new" THEN t.pc = "done" /\ t.spawned
    ELSE t.op = "table_vacuum" /\ (t.pc = "awaiting" \/ t.engine # "none")

C11_Inv ==
    \A i \in Issued :
        /\ tasks[i].seen.some =>
              tasks[i].seen.data =
                 IF tasks[i].op = "table_new" THEN Expected(tasks[i].given)
                 ELSE {<<p[1], <<"String", p[2]>>>> : p \in Expected(tasks[i].given)}
        /\ (Consumed(tasks[i]) /\ tasks[i].given # <<>>) => tasks[i].seen.some

\* C11: the map an open or a vacuum hands to the engine holds, for every key
\* added with map_add, the value of the key's last add, and nothing else, in
\* whatever order the keys were added; the operation and its task leave the
\* caller's Map as it was
C11_MapRoundTrip ==
    /\ []C11_Inv
    /\ [][tasks' # tasks => map' = map]_vars

\* an operation was handed a Map to which one key had been added twice with
\* different values, and the engine saw the second value alone
C11_Witness ==
    \E i \in Issued :
        /\ tasks[i].seen.some /\ Len(tasks[i].given) = 2
        /\ tasks[i].given[1][1] = tasks[i].given[2][1]
        /\ tasks[i].given[1][2] # tasks[i].given[2][2]
        /\ tasks[i].seen.data = {tasks[i].given[2]}
        /\ map.data = {tasks[i].given[2]}

\* the copy of the caller's map a task holds until it hands it to the engine
HeldMap(t) ==
    IF t.op = "table_new" THEN t.builder.storage_options
    ELSE t.captured.custom_metadata

C17_Inv ==
    \A i \in Issued :
        (tasks[i].op \in {"table_new", "table_vacuum"} /\ tasks[i].pc = "spawned") =>
            HeldMap(tasks[i]).data = Expected(tasks[i].given)

\* C17: when the call of an open or a vacuum returns, the task holds its own
\* copies of the location, the options and the map; no later step of the
\* caller changes what the task holds, and what the task hands to the engine
\* is its copy, whatever the caller has done to its Map since the call
C17_NoBorrowedRead ==
    /\ []C17_Inv
    /\ [][\A i \in Issued :
            (tasks[i].pc = "spawned" /\ tasks'[i].pc = "spawned") =>
                /\ tasks'[i].builder = tasks[i].builder
                /\ tasks'[i].captured = tasks[i].captured]_vars
    /\ [][\A i \in Issued :
            (tasks[i].pc = "spawned" /\ tasks'[i].seen.some) =>
                tasks'[i].seen.data =
                   IF tasks[i].op = "table_new" THEN HeldMap(tasks[i]).data
                   ELSE JsonMetadata(HeldMap(tasks[i])).data]_vars

\* the caller added to its Map after the call had returned and before the
\* task handed its inputs to the engine, and the engine saw the Map as it was
\* at the call
C17_Witness ==
    \E i \in Issued :
        /\ tasks[i].seen.some /\ tasks[i].seen.changed
        /\ tasks[i].seen.data # map.data
        /\ tasks[i].op = "table_new" /\ tasks[i].seen.data = Expected(tasks[i].given)

\* C19: a ByteArray whose disable_free flag is set keeps its bytes allocated
\* when it is dropped; one without the flag has them freed by its drop
C19_DisableFreeKept ==
    bytes.made =>
        /\ bytes.array.disable_free => bytes.array.buf # "freed"
        /\ (~bytes.array.disable_free /\ bytes.drops = 1 /\ Len(bytes.vec) > 0)
              => bytes.array.buf = "freed"

\* the number of newlines of a text
RECURSIVE Newlines(_)
Newlines(str) ==
    IF str = <<>> THEN 0
    ELSE (IF str[1] = NL THEN 1 ELSE 0) + Newlines(Tail(str))

\* lines joined with a newline between them
RECURSIVE Join(_)
Join(lines) ==
    IF Len(lines) = 0 THEN <<>>
    ELSE IF Len(lines) = 1 THEN lines[1]
    ELSE lines[1] \o <<NL>> \o Join(Tail(lines))

\* key -> value maps without a newline in a key or a value, as the sequence
\* of their entries in some order
FlatStrings == {<<>>, <<97>>, <<98>>}
FlatEntries ==
    {ps \in UNION {[1..n -> FlatStrings \X FlatStrings] : n \in 0..2} :
        \A i, j \in 1..Len(ps) : i # j => ps[i][1] # ps[j][1]}

\* "k1\nv1\n...\nkn\nvn"
Flatten(ps) == Join([i \in 1..(2 * Len(ps)) |-> ps[(i + 1) \div 2][2 - (i % 2)]])

\* C20: the text is split at its newlines into lines l0, l1, ..; the map read
\* holds l(2i) -> l(2i+1) for every complete pair, a later pair overriding an
\* earlier one with the same key, a last unpaired line left out; the empty
\* text gives the empty map; and the text of a map whose keys and values hold
\* no newline reads back as that map
C20_MetadataParse ==
    meta.read =>
        LET l == Split(meta.text, NL)
            pairs == [i \in 1..(Len(l) \div 2) |-> <<l[2 * i - 1], l[2 * i]>>]
        IN /\ Len(l) = Newlines(meta.text) + 1
           /\ Join(l) = meta.text
           /\ \A i \in 1..Len(l) : Newlines(l[i]) = 0
           /\ meta.map = Expected(pairs)
           /\ meta.text = <<>> => meta.map = {}
           /\ \A ps \in FlatEntries :
                 meta.text = Flatten(ps) => meta.map = {ps[i] : i \in 1..Len(ps)}

\* read: a text with one key twice and a last line without a pair
C20_Witness ==
    /\ meta.read
    /\ meta.text = <<NL, 97, NL, NL, 98, NL>>
    /\ meta.map = {<< <<>>, <<98>> >>}

\* an open whose load is in flight
LoadingOpen(i) ==
    i \in Issued /\ tasks[i].op = "table_new" /\ tasks[i].pc = "spawned"

\* the loader of open i holds each setting exactly when the caller's
\* TableOptions carry it
C21_Inv ==
    \A i \in Issued : LoadingOpen(i) =>
        LET o == tasks[i].asked
            b == tasks[i].builder
        IN /\ b.version.some <=> o.version > 0
           /\ b.version.some => b.version.val = o.version
           /\ b.log_buffer_size.some <=> o.log_buffer_size > 0
           /\ b.log_buffer_size.some => b.log_buffer_size.val = o.log_buffer_size
           /\ b.without_files <=> o.without_files
           /\ b.storage_options.null <=> o.storage_options.null
           /\ b.storage_options.data = o.storage_options.data

\* C21: open passes the caller's version V to the loader exactly when V > 0;
\* for V <= 0, version 0 included, no version is set and a load that succeeds
\* yields the latest version; the log buffer size is passed only when it
\* is > 0, the skip-files setting only when the flag is true, and storage
\* options only when the map pointer is not null
C21_OptionsPassed ==
    /\ []C21_Inv
    /\ [][\A i \in Issued :
              LoadingOpen(i) /\ tables'[i].life = "alive" =>
                 tables'[i].state =
                    Snapshot(IF tasks[i].asked.version > 0
                             THEN tasks[i].asked.version ELSE MaxVersion)]_vars

\* an open asked for version 0, with an empty Map, the flag false and a log
\* buffer size of 0: its loader has no version and no buffer size, does not
\* skip files, and has storage options
C21_Witness ==
    \E i \in Issued :
        /\ LoadingOpen(i)
        /\ tasks[i].asked = [version |-> 0, storage_options |-> MapEmpty,
                             without_files |-> FALSE, log_buffer_size |-> 0]
        /\ ~tasks[i].builder.version.some
        /\ ~tasks[i].builder.log_buffer_size.some
        /\ ~tasks[i].builder.storage_options.null

====
